---- MODULE Spec2Model ----
(***************************************************************************)
(* Model of the cost-annotated interpreter core (src/src/state.cpp,        *)
(* src/src/opcode.h): CostStack, State::update_cost_log,                   *)
(* State::exec_function and State::exec_program.                           *)
(*                                                                         *)
(* The recursion of exec_function is modelled by an explicit stack of      *)
(* activation frames; one action is one dispatch of the switch in the      *)
(* while(true) loop.  A Call dispatch runs up to and including the         *)
(* callee's prologue (lines 55-63); the Ret dispatch of a callee includes  *)
(* the caller's continuation (lines 138-142).                              *)
(*                                                                         *)
(* Costs are doubles in the source.  They are kept here in fixed point,    *)
(* in tenths (Cost::SWITCH = 1.2 is 12), so that sums are exact.           *)
(***************************************************************************)
EXTENDS Integers, Sequences, FiniteSets, TLC

VARIABLES
  program,          \* State::program (Program*), <<>> while nullptr
  status,           \* position of the run: Ready, Running, Returned, Faulted, Crashed
  stack,            \* the nested exec_function activations, innermost last
  nodes,            \* every CostStack object allocated so far, by allocation order
  main_cost,        \* State::main_cost, 0 while nullptr
  regfile,          \* State::regfile
  cost_per_inst,    \* State::cost_per_inst[LEN_OPCODE]
  inst_count,       \* State::inst_count[LEN_OPCODE]
  total_wait_cost,  \* State::total_wait_cost
  error_line_num,   \* the global error_line_num (error.h)
  error_msg,        \* message of the runtime error raised, "" while none
  res,              \* value returned by exec_program
  trace,            \* history: every instruction dispatched so far
  precall,          \* history: per pending Call, the caller's state just before it
  run,              \* which execution of the program this is (1 or 2)
  first_run,        \* outcome of the first execution, <<>> while it is running
  set_calls         \* history: number of set_program calls on this State

vars == <<program, status, stack, nodes, main_cost, regfile, cost_per_inst,
          inst_count, total_wait_cost, error_line_num, error_msg, res,
          trace, precall, run, first_run, set_calls>>

-----------------------------------------------------------------------------
(* Bounds of the model *)

MaxSteps == 14  \* instructions dispatched in one run
MaxDepth == 3   \* nested activations
MaxSetCalls == 2  \* set_program calls on one State

-----------------------------------------------------------------------------
(* opcode.h *)

Opcodes == {"Ret", "BrUncond", "BrCond", "Switch", "Malloc", "Free", "Load",
            "Store", "Bop", "Sum", "Uop", "Select", "Call", "Assert", "Read",
            "Write"}

GenericOpcodes == Opcodes \ {"Ret", "BrUncond", "BrCond", "Switch", "Call"}

\* class Cost, in tenths
RET == 10
BRUNCOND == 10
BRCOND_TRUE == 60
BRCOND_FALSE == 10
SWITCH == 12
CALL == 20
PER_ARG == 10
UOP == 10
ADDSUB == 50
WAIT_STACK == 100

-----------------------------------------------------------------------------
(* Register file and operands (collaborators of the engine) *)

RegNames == {"r1", "r2", "arg1", "arg2"}
Vals == {0, 1, 5, 7}

ArgName(i) == IF i = 1 THEN "arg1" ELSE "arg2"

Imm(v) == [k |-> "imm", v |-> v, r |-> "r1"]
Reg(r) == [k |-> "reg", v |-> 0, r |-> r]

\* value of an operand in a register file
Eval(o, rf) == IF o.k = "imm" THEN o.v ELSE rf.reg[o.r]

\* RegFile::RegFile
RegFile0 == [nargs |-> 0, reg |-> [r \in RegNames |-> 0]]

\* RegFile::set_nargs
set_nargs(rf, n) == [rf EXCEPT !.nargs = n]

\* RegFile::write_reg
write_reg(rf, r, v) == [rf EXCEPT !.reg[r] = v]

-----------------------------------------------------------------------------
(* Program graph: statements, functions, programs *)

Stmt(op, line, next) ==
  [op |-> op, line |-> line, next |-> next, lhs |-> "r1", val |-> Imm(0),
   wait |-> 0, base |-> 0, bb |-> "", bb2 |-> "", cases |-> <<>>,
   fname |-> "", args |-> <<>>, fails |-> FALSE]

StmtRet(line, val, wait) ==
  [Stmt("Ret", line, 0) EXCEPT !.val = val, !.wait = wait]

StmtBrUncond(line, bb) ==
  [Stmt("BrUncond", line, 0) EXCEPT !.bb = bb]

StmtBrCond(line, cond, bbTrue, bbFalse, wait) ==
  [Stmt("BrCond", line, 0) EXCEPT !.val = cond, !.bb = bbTrue, !.bb2 = bbFalse,
                                  !.wait = wait]

StmtSwitch(line, cond, cases, default, wait) ==
  [Stmt("Switch", line, 0) EXCEPT !.val = cond, !.cases = cases,
                                  !.bb2 = default, !.wait = wait]

StmtCall(line, next, lhs, fname, args, wait) ==
  [Stmt("Call", line, next) EXCEPT !.lhs = lhs, !.fname = fname,
                                   !.args = args, !.wait = wait]

\* any other opcode: writes the operand's value to lhs, or fails
StmtGen(op, line, next, lhs, val, base, wait) ==
  [Stmt(op, line, next) EXCEPT !.lhs = lhs, !.val = val, !.base = base,
                               !.wait = wait]

StmtFail(op, line, next) ==
  [Stmt(op, line, next) EXCEPT !.fails = TRUE]

Func(fname, nargs, first, bbs, stmts) ==
  [fname |-> fname, nargs |-> nargs, first |-> first, bbs |-> bbs,
   stmts |-> stmts]

\* Function::get_first_bb: 0 is nullptr
get_first_bb(function) == function.first

\* Function::get_bb: 0 is nullptr
get_bb(function, label) ==
  IF label \in DOMAIN function.bbs THEN function.bbs[label] ELSE 0

\* Program::get_function: <<>> is nullptr
get_function(prog, fname) ==
  IF fname \in DOMAIN prog THEN <<prog[fname]>> ELSE <<>>

\* StmtSwitch::get_bb: label of the first case matching the selector, else default
RECURSIVE SwitchLabel(_, _, _)
SwitchLabel(cases, default, v) ==
  IF cases = <<>> THEN default
  ELSE IF Head(cases)[1] = v THEN Head(cases)[2]
       ELSE SwitchLabel(Tail(cases), default, v)

-----------------------------------------------------------------------------
(* The programs the engine is run on *)

NoBlocks(fname, nargs) == Func(fname, nargs, 0, <<>>, <<>>)

\* f(arg1, arg2): overwrites r1 and r2, returns the immediate v
FuncF(v, w) ==
  Func("f", 2, 1, ("entry" :> 1),
       << StmtGen("Bop", 11, 2, "r1", Imm(7), ADDSUB, 0),
          StmtGen("Load", 12, 3, "r2", Reg("arg2"), UOP, w),
          StmtRet(13, Imm(v), w) >>)

\* main calls `callee` with the first n of three arguments; the Call's
\* successor is statement nx (0: none)
ProgCall(callee, n, w, v, nx) ==
  ("main" :> Func("main", 0, 1, ("entry" :> 1),
       << StmtGen("Uop", 1, 2, "r2", Imm(1), UOP, 0),
          StmtCall(2, nx, "r1", callee,
                   SubSeq(<<Imm(1), Reg("r2"), Imm(7)>>, 1, n), w),
          StmtRet(3, Reg("r1"), 0) >>)) @@
  ("f" :> FuncF(v, w)) @@
  ("g" :> NoBlocks("g", 0))

\* main calls f then g; f calls g; g overwrites every register
FuncG(w) ==
  Func("g", 2, 1, ("entry" :> 1),
       << StmtGen("Sum", 21, 2, "r1", Reg("arg1"), ADDSUB, w),
          StmtGen("Select", 22, 3, "arg1", Imm(7), UOP, 0),
          StmtRet(23, Reg("arg2"), w) >>)

ProgNested(lhs, w) ==
  ("main" :> Func("main", 0, 1, ("entry" :> 1),
       << StmtCall(1, 2, lhs, "f", <<Imm(1)>>, w),
          StmtCall(2, 3, "r2", "g", <<Imm(0), Imm(5)>>, 0),
          StmtRet(3, Reg(lhs), 0) >>)) @@
  ("f" :> Func("f", 1, 1, ("entry" :> 1),
       << StmtCall(11, 2, lhs, "g", <<Reg("arg1"), Imm(7)>>, w),
          StmtGen("Store", 12, 3, "r2", Imm(5), UOP, w),
          StmtRet(13, Reg(lhs), 0) >>)) @@
  ("g" :> FuncG(w))

\* a loop entered by an unconditional branch and left by a conditional one;
\* the back edge goes to block t
ProgLoop(t, w) ==
  ("main" :> Func("main", 0, 1,
       ("entry" :> 1) @@ ("loop" :> 3) @@ ("body" :> 5) @@ ("exit" :> 7),
       << StmtGen("Malloc", 1, 2, "r1", Imm(0), UOP, 0),
          StmtBrUncond(2, "loop"),
          StmtGen("Uop", 3, 4, "r2", Imm(5), UOP, w),
          StmtBrCond(4, Reg("r1"), "exit", "body", w),
          StmtGen("Free", 5, 6, "r1", Imm(1), UOP, 0),
          StmtBrUncond(6, t),
          StmtRet(7, Reg("r2"), 0) >>))

\* a switch on v with default block d; block b ends without a terminator,
\* block c fails in its instruction
ProgSwitch(v, d, w) ==
  ("main" :> Func("main", 0, 1,
       ("entry" :> 1) @@ ("a" :> 3) @@ ("b" :> 4) @@ ("c" :> 5),
       << StmtGen("Read", 1, 2, "r1", Imm(v), UOP, 0),
          StmtSwitch(2, Reg("r1"), << <<0, "a">>, <<1, "b">> >>, d, w),
          StmtRet(3, Imm(1), w),
          StmtGen("Write", 4, 0, "r2", Reg("r1"), UOP, 0),
          StmtFail("Assert", 5, 0) >>))

\* f calls itself while its argument is not 0, passing x
ProgRec(x) ==
  ("main" :> Func("main", 0, 1, ("entry" :> 1),
       << StmtCall(1, 2, "r1", "f", <<Imm(1)>>, 0),
          StmtRet(2, Reg("r1"), 0) >>)) @@
  ("f" :> Func("f", 1, 1, ("entry" :> 1) @@ ("rec" :> 2) @@ ("base" :> 4),
       << StmtBrCond(11, Reg("arg1"), "rec", "base", 0),
          StmtCall(12, 3, "r1", "f", <<Imm(x)>>, 0),
          StmtRet(13, Reg("r1"), 0),
          StmtRet(14, Imm(5), 0) >>))

\* the statements that raise a runtime error, at line 12 of f
FaultyStmts ==
  { StmtBrUncond(12, "nowhere"),
    StmtBrCond(12, Reg("r1"), "nowhere", "entry", WAIT_STACK),
    StmtBrCond(12, Reg("r2"), "entry", "nowhere", WAIT_STACK),
    StmtSwitch(12, Reg("r1"), << <<0, "entry">> >>, "nowhere", WAIT_STACK),
    StmtCall(12, 0, "r1", "h", <<>>, WAIT_STACK),
    StmtCall(12, 0, "r1", "f", <<Imm(1)>>, WAIT_STACK),
    StmtCall(12, 0, "r1", "g", <<>>, WAIT_STACK),
    StmtFail("Load", 12, 0) }

\* main calls f, whose second statement is st
ProgDeep(st) ==
  ("main" :> Func("main", 0, 1, ("entry" :> 1),
       << StmtGen("Uop", 1, 2, "r2", Imm(7), UOP, 0),
          StmtCall(2, 3, "r1", "f", <<>>, 0),
          StmtRet(3, Reg("r1"), 0) >>)) @@
  ("f" :> Func("f", 0, 1, ("entry" :> 1),
       << StmtGen("Uop", 11, 2, "r1", Imm(1), UOP, WAIT_STACK),
          st >>)) @@
  ("g" :> NoBlocks("g", 0))

\* main calls f, whose only instruction is a Return of v
ProgRetOnly(v, w) ==
  ("main" :> Func("main", 0, 1, ("entry" :> 1),
       << StmtCall(1, 2, "r1", "f", <<>>, w),
          StmtRet(2, Reg("r1"), 0) >>)) @@
  ("f" :> Func("f", 0, 1, ("entry" :> 1), << StmtRet(11, Imm(v), w) >>))

\* the only instruction of main is a Return of v
ProgMainRet(v, w) ==
  ("main" :> Func("main", 0, 1, ("entry" :> 1), << StmtRet(1, Imm(v), w) >>))

\* main passes an assertion and returns
ProgChecked ==
  ("main" :> Func("main", 0, 1, ("entry" :> 1),
       << StmtGen("Assert", 1, 2, "r1", Reg("r1"), 0, 0),
          StmtRet(2, Imm(1), 0) >>))

\* ProgLoop("loop", w) with its loop unrolled twice: the statements it
\* executes, in order, without the two unconditional branches
ProgUnrolled(w) ==
  ("main" :> Func("main", 0, 1,
       ("entry" :> 1) @@ ("body" :> 4) @@ ("exit" :> 7),
       << StmtGen("Malloc", 1, 2, "r1", Imm(0), UOP, 0),
          StmtGen("Uop", 3, 3, "r2", Imm(5), UOP, w),
          StmtBrCond(4, Reg("r1"), "exit", "body", w),
          StmtGen("Free", 5, 5, "r1", Imm(1), UOP, 0),
          StmtGen("Uop", 3, 6, "r2", Imm(5), UOP, w),
          StmtBrCond(4, Reg("r1"), "exit", "body", w),
          StmtRet(7, Reg("r2"), 0) >>))

\* no function named main
ProgNoMain == ("f" :> FuncF(5, 0))

\* main has no basic block
ProgEmptyMain == ("main" :> NoBlocks("main", 0))

Labels == {"loop", "entry", "nowhere"}
Defaults == {"c", "nowhere"}
Waits == {0, WAIT_STACK}

Programs ==
  {ProgCall(callee, n, w, v, nx) :
     callee \in {"f", "g", "h"}, n \in 0..3, w \in Waits, v \in {0, 5},
     nx \in {0, 3}}
  \cup {ProgNested(lhs, w) : lhs \in {"r1", "r2", "arg1"}, w \in Waits}
  \cup {ProgLoop(t, w) : t \in Labels, w \in Waits}
  \cup {ProgSwitch(v, d, w) : v \in Vals, d \in Defaults, w \in Waits}
  \cup {ProgRec(x) : x \in {0, 1}}
  \cup {ProgDeep(st) : st \in FaultyStmts}
  \cup {ProgRetOnly(v, w) : v \in {0, 5}, w \in Waits}
  \cup {ProgMainRet(v, w) : v \in {0, 5}, w \in Waits}
  \cup {ProgNoMain, ProgEmptyMain, ProgChecked}

-----------------------------------------------------------------------------
(* CostStack *)

\* CostStack::CostStack
NewCostStack(fname) == [fname |-> fname, cost |-> 0, callees |-> <<>>]

\* CostStack::get_cost
get_cost(ns, id) == ns[id].cost

\* CostStack::add_cost
add_cost(ns, id, c) == [ns EXCEPT ![id].cost = @ + c]

\* the callee is put in front of the earlier callees
set_callee_Front(ns, id, callee) ==
  [ns EXCEPT ![id].callees = <<callee>> \o @]

\* CostStack::set_callee
set_callee(ns, id, callee) == [ns EXCEPT ![id].callees = Append(@, callee)]

\* State::get_cost_value (main_cost is not nullptr)
get_cost_value == get_cost(nodes, main_cost)

-----------------------------------------------------------------------------
(* State *)

Prog == program[1]

Top == stack[Len(stack)]

FnOf(frame) == Prog[frame.function]

StmtAt(frame) == FnOf(frame).stmts[frame.curr]

\* the activation record of one exec_function call
Frame(function, curr, cost, parent) ==
  [function |-> function.fname, curr |-> curr, cost |-> cost,
   parent |-> parent, old |-> RegFile0]

\* an entry of the history of dispatched instructions; ok: the dispatch
\* passed the instruction's own checks and reached update_cost_log
Event(frame, base, stall, ok) ==
  [node |-> frame.cost, fname |-> frame.function, idx |-> frame.curr,
   op |-> StmtAt(frame).op, line |-> StmtAt(frame).line, base |-> base,
   stall |-> stall, ok |-> ok]

\* the stall cost is added to the opcode's cost cell too
update_cost_log_WithStall(opcode, inst_cost, wait_cost) ==
  /\ cost_per_inst' = [cost_per_inst EXCEPT ![opcode] = @ + inst_cost + wait_cost]
  /\ inst_count' = [inst_count EXCEPT ![opcode] = @ + 1]
  /\ total_wait_cost' = total_wait_cost + wait_cost

\* the cells are assigned instead of added to
update_cost_log_Assign(opcode, inst_cost, wait_cost) ==
  /\ cost_per_inst' = [cost_per_inst EXCEPT ![opcode] = inst_cost]
  /\ inst_count' = [inst_count EXCEPT ![opcode] = @ + 1]
  /\ total_wait_cost' = wait_cost

\* the stall cost is not added to the wait-cost total
update_cost_log_NoWait(opcode, inst_cost, wait_cost) ==
  /\ cost_per_inst' = [cost_per_inst EXCEPT ![opcode] = @ + inst_cost]
  /\ inst_count' = [inst_count EXCEPT ![opcode] = @ + 1]
  /\ UNCHANGED total_wait_cost

\* State::update_cost_log
update_cost_log(opcode, inst_cost, wait_cost) ==
  /\ cost_per_inst' = [cost_per_inst EXCEPT ![opcode] = @ + inst_cost]
  /\ inst_count' = [inst_count EXCEPT ![opcode] = @ + 1]
  /\ total_wait_cost' = total_wait_cost + wait_cost

NoLog == UNCHANGED <<cost_per_inst, inst_count, total_wait_cost>>

\* invoke_runtime_error (error.h): reports msg at error_line_num and ends the run
invoke_runtime_error(msg) ==
  /\ status' = "Faulted"
  /\ error_msg' = msg

\* State::State
Constructed ==
  /\ program = <<>>
  /\ status = "Ready"
  /\ stack = <<>>
  /\ nodes = <<>>
  /\ main_cost = 0
  /\ regfile = RegFile0
  /\ cost_per_inst = [o \in Opcodes |-> 0]
  /\ inst_count = [o \in Opcodes |-> 0]
  /\ total_wait_cost = 0
  /\ error_line_num = 0
  /\ error_msg = ""
  /\ res = 0
  /\ trace = <<>>
  /\ precall = <<>>
  /\ set_calls = 0

\* an activation of a function that ran before takes the accumulator of
\* the earlier activation instead of a fresh one
Prologue_Shared(parent, function, ns, frames) ==
  LET same == {i \in DOMAIN ns : ns[i].fname = function.fname}
      cost == IF same = {} THEN Len(ns) + 1 ELSE CHOOSE i \in same : TRUE
      ns1 == IF same = {} THEN Append(ns, NewCostStack(function.fname)) ELSE ns
      curr == get_first_bb(function)
  IN /\ nodes' = IF parent = 0 THEN ns1 ELSE set_callee(ns1, parent, cost)
     /\ main_cost' = IF parent = 0 THEN cost ELSE main_cost
     /\ stack' = Append(frames, Frame(function, curr, cost, parent))
     /\ IF curr = 0
        THEN invoke_runtime_error("missing first basic block")
        ELSE status' = "Running" /\ error_msg' = error_msg

\* exec_function, lines 55-63: the prologue of an activation of `function`
\* called with `parent`, the other activations being `frames`
Prologue(parent, function, ns, frames) ==
  LET cost == Len(ns) + 1
      ns1 == Append(ns, NewCostStack(function.fname))
      curr == get_first_bb(function)
  IN /\ nodes' = IF parent = 0 THEN ns1 ELSE set_callee(ns1, parent, cost)
     /\ main_cost' = IF parent = 0 THEN cost ELSE main_cost
     /\ stack' = Append(frames, Frame(function, curr, cost, parent))
     /\ IF curr = 0
        THEN invoke_runtime_error("missing first basic block")
        ELSE status' = "Running" /\ error_msg' = error_msg

\* a dispatch of the loop can happen: the innermost activation has a cursor
CanDispatch(op) ==
  /\ status = "Running"
  /\ Len(trace) < MaxSteps
  /\ Top.curr # 0
  /\ StmtAt(Top).op = op

\* the innermost activation with its cursor moved
Moved(curr) == [stack EXCEPT ![Len(stack)].curr = curr]

-----------------------------------------------------------------------------
(* Collaborators of the dispatch loop *)

\* StmtRet::get_val: the value returned and its stall cost
get_val(stmt, rf) == <<Eval(stmt.val, rf), stmt.wait>>

\* StmtBrCond::get_eval: the condition evaluated
get_eval(stmt, rf) == Eval(stmt.val, rf) # 0

\* StmtBrCond::get_bb: the label chosen by the condition and its stall cost
BrCond_get_bb(stmt, rf) ==
  <<IF get_eval(stmt, rf) THEN stmt.bb ELSE stmt.bb2, stmt.wait>>

\* StmtSwitch::get_bb: the label chosen by the selector and its stall cost
Switch_get_bb(stmt, rf) ==
  <<SwitchLabel(stmt.cases, stmt.bb2, Eval(stmt.val, rf)), stmt.wait>>

\* StmtCall::setup_args: the callee's argument registers, read in old
setup_args(stmt, old, rf) ==
  [rf EXCEPT !.reg =
     [r \in RegNames |->
        IF \E i \in 1..Len(stmt.args) : ArgName(i) = r /\ i <= 2
        THEN Eval(stmt.args[IF r = "arg1" THEN 1 ELSE 2], old)
        ELSE rf.reg[r]]]

-----------------------------------------------------------------------------
(* Pieces of exec_function shared by its cases *)

\* the line is not recorded before the dispatch
RecordLine_Stale(stmt) == UNCHANGED error_line_num

\* line 66: the line of the instruction about to be dispatched
RecordLine(stmt) == error_line_num' = stmt.line

\* the error is reported and the loop goes on
BranchRejected_Swallowed(ev) ==
  /\ error_msg' = "branching to an undefined basic block"
  /\ NoLog
  /\ trace' = Append(trace, ev)
  /\ UNCHANGED <<nodes, status>>

\* lines 82-85, 94-97, 107-110: the target block is undefined; ev is the
\* instruction that was dispatched
BranchRejected(ev) ==
  /\ invoke_runtime_error("branching to an undefined basic block")
  /\ NoLog
  /\ trace' = Append(trace, ev)
  /\ UNCHANGED nodes

\* the Call is refused only after its cost was charged
CallRejected_Charged(msg, ev) ==
  /\ invoke_runtime_error(msg)
  /\ NoLog
  /\ trace' = Append(trace, ev)
  /\ nodes' = add_cost(nodes, ev.node, ev.base + ev.stall)
  /\ UNCHANGED <<main_cost, stack, regfile, precall>>

\* lines 119-122, 125-128: the Call is refused with msg
CallRejected(msg, ev) ==
  /\ invoke_runtime_error(msg)
  /\ NoLog
  /\ trace' = Append(trace, ev)
  /\ UNCHANGED <<nodes, main_cost, stack, regfile, precall>>

\* one argument is charged whatever their number
CallCost_OneArg(nargs) == CALL + PER_ARG

\* the two costs are exchanged
BrCondCost_Swapped(eval) == IF eval THEN BRCOND_FALSE ELSE BRCOND_TRUE

\* line 98: the base cost of a conditional branch whose condition is eval
BrCondCost(eval) == IF eval THEN BRCOND_TRUE ELSE BRCOND_FALSE

\* line 134: the base cost of a Call
CallCost(nargs) == CALL + nargs * PER_ARG

\* the callee's total is not propagated to the parent
RetNodes_NoParent(ns, frame, stall) == add_cost(ns, frame.cost, RET + stall)

\* the stall cost of the return value is not charged
RetNodes_NoStall(ns, frame, stall) ==
  LET ns1 == add_cost(ns, frame.cost, RET)
  IN IF frame.parent # 0
     THEN add_cost(ns1, frame.parent, get_cost(ns1, frame.cost))
     ELSE ns1

\* the callee's total is propagated twice
RetNodes_Twice(ns, frame, stall) ==
  LET ns1 == add_cost(ns, frame.cost, RET + stall)
  IN IF frame.parent # 0
     THEN add_cost(ns1, frame.parent, 2 * get_cost(ns1, frame.cost))
     ELSE ns1

\* lines 72-75: the accumulators after a Ret with the given stall cost in
\* the activation `frame`
RetNodes(ns, frame, stall) ==
  LET ns1 == add_cost(ns, frame.cost, RET + stall)
  IN IF frame.parent # 0
     THEN add_cost(ns1, frame.parent, get_cost(ns1, frame.cost))
     ELSE ns1

\* the saved register file is not put back
Restored_Not(old, lhs, ret) == write_reg(regfile, lhs, ret)

\* lines 138-139: the caller's register file once the callee returned ret
Restored(old, lhs, ret) == write_reg(old, lhs, ret)

-----------------------------------------------------------------------------
(* Actions *)

\* every call installs its argument
SetProgram_Overwrite(p) ==
  /\ status \in {"Ready", "Returned"}
  /\ set_calls < MaxSetCalls
  /\ set_calls' = set_calls + 1
  /\ program' = <<p>>
  /\ UNCHANGED <<status, stack, nodes, main_cost, regfile, cost_per_inst,
                 inst_count, total_wait_cost, error_line_num, error_msg, res,
                 trace, precall, run, first_run>>

\* State::set_program
SetProgram(p) ==
  /\ status \in {"Ready", "Returned"}
  /\ set_calls < MaxSetCalls
  /\ set_calls' = set_calls + 1
  /\ program' = IF program = <<>> THEN <<p>> ELSE program
  /\ UNCHANGED <<status, stack, nodes, main_cost, regfile, cost_per_inst,
                 inst_count, total_wait_cost, error_line_num, error_msg, res,
                 trace, precall, run, first_run>>

\* the root accumulator is created before main is looked up
ExecProgram_EagerRoot ==
  /\ status = "Ready"
  /\ program # <<>>
  /\ LET main == get_function(Prog, "main")
     IN IF main = <<>>
        THEN /\ invoke_runtime_error("missing main function")
             /\ nodes' = Append(nodes, NewCostStack("main"))
             /\ main_cost' = Len(nodes) + 1
             /\ UNCHANGED stack
        ELSE Prologue(0, main[1], nodes, stack)
  /\ NoLog
  /\ UNCHANGED <<program, regfile, error_line_num, res, trace, precall, run,
                 first_run, set_calls>>

\* State::exec_program up to the first dispatch of main; its caller has
\* set the program
ExecProgram ==
  /\ status = "Ready"
  /\ program # <<>>
  /\ LET main == get_function(Prog, "main")
     IN IF main = <<>>
        THEN /\ invoke_runtime_error("missing main function")
             /\ UNCHANGED <<nodes, main_cost, stack>>
        ELSE Prologue(0, main[1], nodes, stack)
  /\ NoLog
  /\ UNCHANGED <<program, regfile, error_line_num, res, trace, precall, run,
                 first_run, set_calls>>

\* case Ret, and for a callee lines 138-142 of the caller's case Call
DoRet ==
  /\ CanDispatch("Ret")
  /\ LET stmt == StmtAt(Top)
         ret == get_val(stmt, regfile)
     IN /\ RecordLine(stmt)
        /\ nodes' = RetNodes(nodes, Top, ret[2])
        /\ update_cost_log("Ret", RET, ret[2])
        /\ trace' = Append(trace, Event(Top, RET, ret[2], TRUE))
        /\ IF Len(stack) = 1
           THEN /\ res' = ret[1]
                /\ status' = "Returned"
                /\ stack' = <<>>
                /\ UNCHANGED <<regfile, precall>>
           ELSE LET caller == stack[Len(stack) - 1]
                    call == StmtAt(caller)
                IN /\ regfile' = Restored(caller.old, call.lhs, ret[1])
                   /\ stack' = Append(SubSeq(stack, 1, Len(stack) - 2),
                                      [caller EXCEPT !.curr = call.next,
                                                     !.old = RegFile0])
                   /\ precall' = SubSeq(precall, 1, Len(precall) - 1)
                   /\ UNCHANGED <<res, status>>
  /\ UNCHANGED <<program, main_cost, error_msg, run, first_run, set_calls>>

\* the branch is logged but not charged to the accumulator
DoBrUncond_Uncharged ==
  /\ CanDispatch("BrUncond")
  /\ LET stmt == StmtAt(Top)
         curr == get_bb(FnOf(Top), stmt.bb)
     IN /\ RecordLine(stmt)
        /\ stack' = Moved(curr)
        /\ IF curr = 0
           THEN BranchRejected(Event(Top, BRUNCOND, 0, FALSE))
           ELSE /\ nodes' = nodes
                /\ update_cost_log("BrUncond", BRUNCOND, 0)
                /\ trace' = Append(trace, Event(Top, BRUNCOND, 0, TRUE))
                /\ UNCHANGED <<status, error_msg>>
  /\ UNCHANGED <<program, main_cost, regfile, res, precall, run, first_run, set_calls>>

\* case BrUncond
DoBrUncond ==
  /\ CanDispatch("BrUncond")
  /\ LET stmt == StmtAt(Top)
         curr == get_bb(FnOf(Top), stmt.bb)
     IN /\ RecordLine(stmt)
        /\ stack' = Moved(curr)
        /\ IF curr = 0
           THEN BranchRejected(Event(Top, BRUNCOND, 0, FALSE))
           ELSE /\ nodes' = add_cost(nodes, Top.cost, BRUNCOND)
                /\ update_cost_log("BrUncond", BRUNCOND, 0)
                /\ trace' = Append(trace, Event(Top, BRUNCOND, 0, TRUE))
                /\ UNCHANGED <<status, error_msg>>
  /\ UNCHANGED <<program, main_cost, regfile, res, precall, run, first_run, set_calls>>

\* case BrCond
DoBrCond ==
  /\ CanDispatch("BrCond")
  /\ LET stmt == StmtAt(Top)
         bb == BrCond_get_bb(stmt, regfile)
         curr == get_bb(FnOf(Top), bb[1])
         inst_cost == BrCondCost(get_eval(stmt, regfile))
     IN /\ RecordLine(stmt)
        /\ stack' = Moved(curr)
        /\ IF curr = 0
           THEN BranchRejected(Event(Top, inst_cost, bb[2], FALSE))
           ELSE /\ nodes' = add_cost(nodes, Top.cost, inst_cost + bb[2])
                /\ update_cost_log("BrCond", inst_cost, bb[2])
                /\ trace' = Append(trace, Event(Top, inst_cost, bb[2], TRUE))
                /\ UNCHANGED <<status, error_msg>>
  /\ UNCHANGED <<program, main_cost, regfile, res, precall, run, first_run, set_calls>>

\* case Switch
DoSwitch ==
  /\ CanDispatch("Switch")
  /\ LET stmt == StmtAt(Top)
         bb == Switch_get_bb(stmt, regfile)
         curr == get_bb(FnOf(Top), bb[1])
     IN /\ RecordLine(stmt)
        /\ stack' = Moved(curr)
        /\ IF curr = 0
           THEN BranchRejected(Event(Top, SWITCH, bb[2], FALSE))
           ELSE /\ nodes' = add_cost(nodes, Top.cost, SWITCH + bb[2])
                /\ update_cost_log("Switch", SWITCH, bb[2])
                /\ trace' = Append(trace, Event(Top, SWITCH, bb[2], TRUE))
                /\ UNCHANGED <<status, error_msg>>
  /\ UNCHANGED <<program, main_cost, regfile, res, precall, run, first_run, set_calls>>

\* case Call up to the first dispatch of the callee
DoCall ==
  /\ CanDispatch("Call")
  /\ Len(stack) < MaxDepth
  /\ LET stmt == StmtAt(Top)
         callee == get_function(Prog, stmt.fname)
         given == Len(stmt.args)
     IN /\ RecordLine(stmt)
        /\ IF callee = <<>>
           THEN CallRejected("calling an undefined function",
                             Event(Top, CallCost(given), stmt.wait, FALSE))
           ELSE LET nargs == callee[1].nargs
                    old == regfile
                    wait_cost == stmt.wait
                    inst_cost == CallCost(nargs)
                IN IF nargs # given
                   THEN CallRejected(
                          "calling with incorrect number of arguments",
                          Event(Top, inst_cost, wait_cost, FALSE))
                   ELSE /\ regfile' = setup_args(stmt, old,
                                                 set_nargs(regfile, nargs))
                        /\ update_cost_log("Call", inst_cost, wait_cost)
                        /\ trace' = Append(trace,
                              Event(Top, inst_cost, wait_cost, TRUE))
                        /\ precall' = Append(precall,
                              [regfile |-> regfile,
                               cost |-> get_cost(nodes, Top.cost)])
                        /\ Prologue(Top.cost, callee[1],
                                    add_cost(nodes, Top.cost,
                                             inst_cost + wait_cost),
                                    [stack EXCEPT ![Len(stack)].old = old])
  /\ UNCHANGED <<program, res, run, first_run, set_calls>>

\* default: every other opcode
DoDefault ==
  /\ \E op \in GenericOpcodes : CanDispatch(op)
  /\ LET stmt == StmtAt(Top)
         costs == <<stmt.base, stmt.wait>>
     IN /\ RecordLine(stmt)
        /\ IF stmt.fails
           THEN \* Stmt::exec raises a runtime error
                /\ invoke_runtime_error("runtime error in the instruction")
                /\ NoLog
                /\ trace' = Append(trace,
                                   Event(Top, costs[1], costs[2], FALSE))
                /\ UNCHANGED <<nodes, stack, regfile>>
           ELSE /\ regfile' = write_reg(regfile, stmt.lhs,
                                        Eval(stmt.val, regfile))
                /\ nodes' = add_cost(nodes, Top.cost, costs[1] + costs[2])
                /\ update_cost_log(stmt.op, costs[1], costs[2])
                /\ trace' = Append(trace,
                                   Event(Top, costs[1], costs[2], TRUE))
                /\ stack' = Moved(stmt.next)
                /\ UNCHANGED <<status, error_msg>>
  /\ UNCHANGED <<program, main_cost, res, precall, run, first_run, set_calls>>

\* line 66 with curr == nullptr: curr->get_line() is undefined behaviour;
\* the run is killed, having read the line from nowhere or not at all
DerefNull ==
  /\ status = "Running"
  /\ Top.curr = 0
  /\ status' = "Crashed"
  /\ error_line_num' \in {error_line_num, -1}
  /\ UNCHANGED <<program, stack, nodes, main_cost, regfile, cost_per_inst,
                 inst_count, total_wait_cost, error_msg, res, trace, precall,
                 run, first_run, set_calls>>

\* what a run reports
Outcome ==
  [status |-> status,
   cost |-> IF main_cost = 0 THEN 0 ELSE get_cost_value,
   total_wait_cost |-> total_wait_cost,
   cost_per_inst |-> cost_per_inst,
   inst_count |-> inst_count,
   res |-> res]

\* ss << fixed << setprecision(4) << cost: the integer part and the four
\* digits after the point of a cost (held in tenths)
Fixed4(cost) == <<cost \div 10, (cost % 10) * 1000>>

\* State::inst_log_line: the row of the report made of the label inst and of
\* the cells of opcode
inst_log_line(opcode, inst) ==
  [opcode |-> opcode, inst |-> inst, count |-> inst_count[opcode],
   cost |-> Fixed4(cost_per_inst[opcode])]

\* State::inst_log_to_string: the rows of the report under its header line
inst_log_to_string ==
  << inst_log_line("Ret", "Ret"),
     inst_log_line("BrUncond", "BrUncond"),
     inst_log_line("BrCond", "BrCond"),
     inst_log_line("BrCond", "BrCond"),
     inst_log_line("Switch", "Switch"),
     inst_log_line("Malloc", "Malloc"),
     inst_log_line("Free", "Free"),
     inst_log_line("Load", "Load"),
     inst_log_line("Store", "Store"),
     inst_log_line("Bop", "BinaryOp"),
     inst_log_line("Sum", "Sum"),
     inst_log_line("Uop", "UnaryOp"),
     inst_log_line("Select", "Select"),
     inst_log_line("Call", "Call"),
     inst_log_line("Read", "Read"),
     inst_log_line("Write", "Write") >>

\* the Instruction Log counts survive into the second run
Rerun_KeepLog ==
  /\ status \in {"Returned", "Faulted", "Crashed"}
  /\ program # <<>>
  /\ run = 1
  /\ run' = 2
  /\ first_run' = <<Outcome>>
  /\ status' = "Ready"
  /\ stack' = <<>>
  /\ nodes' = <<>>
  /\ main_cost' = 0
  /\ regfile' = RegFile0
  /\ cost_per_inst' = [o \in Opcodes |-> 0]
  /\ total_wait_cost' = 0
  /\ error_line_num' = 0
  /\ error_msg' = ""
  /\ res' = 0
  /\ trace' = <<>>
  /\ precall' = <<>>
  /\ set_calls' = 1
  /\ UNCHANGED <<program, inst_count>>

\* the same program run again: State::State, set_program with the program
\* of the first run
Rerun ==
  /\ status \in {"Returned", "Faulted", "Crashed"}
  /\ program # <<>>
  /\ run = 1
  /\ run' = 2
  /\ first_run' = <<Outcome>>
  /\ program' = program
  /\ status' = "Ready"
  /\ stack' = <<>>
  /\ nodes' = <<>>
  /\ main_cost' = 0
  /\ regfile' = RegFile0
  /\ cost_per_inst' = [o \in Opcodes |-> 0]
  /\ inst_count' = [o \in Opcodes |-> 0]
  /\ total_wait_cost' = 0
  /\ error_line_num' = 0
  /\ error_msg' = ""
  /\ res' = 0
  /\ trace' = <<>>
  /\ precall' = <<>>
  /\ set_calls' = 1

\* the loop program has run; its unrolled form is run from a new State
RunUnrolled ==
  /\ status \in {"Returned", "Faulted", "Crashed"}
  /\ program # <<>>
  /\ run = 1
  /\ \E w \in Waits :
       /\ Prog = ProgLoop("loop", w)
       /\ program' = <<ProgUnrolled(w)>>
  /\ run' = 2
  /\ first_run' = <<[outcome |-> Outcome, reg |-> regfile.reg]>>
  /\ status' = "Ready"
  /\ stack' = <<>>
  /\ nodes' = <<>>
  /\ main_cost' = 0
  /\ regfile' = RegFile0
  /\ cost_per_inst' = [o \in Opcodes |-> 0]
  /\ inst_count' = [o \in Opcodes |-> 0]
  /\ total_wait_cost' = 0
  /\ error_line_num' = 0
  /\ error_msg' = ""
  /\ res' = 0
  /\ trace' = <<>>
  /\ precall' = <<>>
  /\ set_calls' = 1

-----------------------------------------------------------------------------
(* Specifications *)

Init ==
  /\ Constructed
  /\ run = 1
  /\ first_run = <<>>

Step ==
  \/ DoRet
  \/ DoBrUncond
  \/ DoBrCond
  \/ DoSwitch
  \/ DoCall
  \/ DoDefault
  \/ DerefNull

Next ==
  \/ \E p \in Programs : SetProgram(p)
  \/ ExecProgram
  \/ Step

\* one run of a program
Spec == Init /\ [][Next]_vars

NextRerun ==
  \/ Next
  \/ Rerun

\* a program run, and then run again from a new State
SpecRerun == Init /\ [][NextRerun]_vars

NextUnroll ==
  \/ Next
  \/ RunUnrolled

\* a program run and, if it is the loop program, its unrolled form run next
SpecUnroll == Init /\ [][NextUnroll]_vars

-----------------------------------------------------------------------------
(* Properties *)

RECURSIVE SumCosts(_)
\* base + stall cost summed over a history of instructions
SumCosts(tr) ==
  IF tr = <<>> THEN 0
  ELSE Head(tr).base + Head(tr).stall + SumCosts(Tail(tr))

\* C1: when exec_program has returned, the root accumulator's cost is the sum
\* of base + stall cost over every instruction executed in the run, at any
\* call depth, each counted once.
C1_RootCostIsSum ==
  status = "Returned" =>
    /\ get_cost_value = SumCosts(trace)
    /\ \A i \in DOMAIN trace : trace[i].ok

\* a run returned after instructions with stall cost ran three calls deep
C1_Witness ==
  /\ status = "Returned"
  /\ Len(nodes) = 4
  /\ \E i \in DOMAIN trace : trace[i].node = 3 /\ trace[i].stall > 0

\* the step is the return of a callee into its caller
CalleeReturns ==
  /\ status = "Running"
  /\ Len(stack) > 1
  /\ Len(stack') = Len(stack) - 1

\* C2: when a callee returns, the register file (argument-count marker
\* included) is the one from just before the Call, except that the Call's
\* destination register holds the value of the callee's Return.
C2_RegFileRestored ==
  [][CalleeReturns =>
       LET before == precall[Len(precall)].regfile
           call == StmtAt(stack[Len(stack) - 1])
           ret == get_val(StmtAt(Top), regfile)[1]
       IN /\ regfile'.nargs = before.nargs
          /\ \A r \in RegNames :
               regfile'.reg[r] = IF r = call.lhs THEN ret ELSE before.reg[r]
    ]_vars

\* main is running again after f returned, f's callee g having overwritten
\* r1 and arg1 and the argument count
C2_Witness ==
  /\ status = "Running"
  /\ Len(stack) = 1
  /\ trace # <<>>
  /\ trace[Len(trace)].op = "Ret"
  /\ trace[Len(trace)].node = 2
  /\ \E i \in DOMAIN trace : trace[i].node = 3 /\ trace[i].op = "Select"
  /\ regfile.nargs = 0

\* the innermost activation is about to dispatch a Call to a function that
\* is not defined or that declares another number of arguments
BadCall ==
  /\ CanDispatch("Call")
  /\ LET stmt == StmtAt(Top)
     IN \/ stmt.fname \notin DOMAIN Prog
        \/ Prog[stmt.fname].nargs # Len(stmt.args)

\* C3: a Call of an undefined function or with the wrong number of arguments
\* faults the run and changes no accumulator, no Instruction Log cell, not
\* the wait-cost total and not the register file.
C3_RejectedCallNoEffect ==
  [][BadCall =>
       /\ status' = "Faulted"
       /\ nodes' = nodes
       /\ cost_per_inst' = cost_per_inst
       /\ inst_count' = inst_count
       /\ total_wait_cost' = total_wait_cost
       /\ regfile' = regfile
    ]_vars

\* a Call with 3 arguments of a function declaring 2 was refused
C3_Witness ==
  /\ status = "Faulted"
  /\ error_msg = "calling with incorrect number of arguments"
  /\ Len(StmtAt(Top).args) = 3
  /\ Prog[StmtAt(Top).fname].nargs = 2

\* the label a branch or switch statement resolves to
TargetLabel(stmt) ==
  IF stmt.op = "BrUncond" THEN stmt.bb
  ELSE IF stmt.op = "BrCond"
       THEN (IF regfile.reg[stmt.val.r] # 0 THEN stmt.bb ELSE stmt.bb2)
       ELSE SwitchLabel(stmt.cases, stmt.bb2, regfile.reg[stmt.val.r])

\* the innermost activation is about to dispatch a branch or switch whose
\* target is not a block of its function
BadBranch ==
  /\ \E op \in {"BrUncond", "BrCond", "Switch"} : CanDispatch(op)
  /\ TargetLabel(StmtAt(Top)) \notin DOMAIN FnOf(Top).bbs

\* C4: a branch or switch to an undefined block faults the run, the error
\* line is the line of that branch or switch, and nothing is added to any
\* accumulator, to the Instruction Log or to the wait-cost total.
C4_BadBranchFaultsAtItsLine ==
  [][BadBranch =>
       /\ status' = "Faulted"
       /\ error_line_num' = StmtAt(Top).line
       /\ nodes' = nodes
       /\ cost_per_inst' = cost_per_inst
       /\ inst_count' = inst_count
       /\ total_wait_cost' = total_wait_cost
    ]_vars

\* a switch to an undefined block faulted in a callee, after an instruction
\* of another line
C4_Witness ==
  /\ status = "Faulted"
  /\ error_msg = "branching to an undefined basic block"
  /\ Len(stack) = 2
  /\ trace[Len(trace)].op = "Switch"
  /\ error_line_num = trace[Len(trace)].line
  /\ trace[Len(trace) - 1].line # error_line_num

\* C5: a run is Ready, Running, Returned or Faulted, and no activation of a
\* Running run has a null cursor: a null successor faults the run.
C5_NullSuccessorFaults ==
  /\ status \in {"Ready", "Running", "Returned", "Faulted"}
  /\ status = "Running" => \A i \in DOMAIN stack : stack[i].curr # 0

\* C6: once a runtime error is raised, at any call depth, the run is Faulted
\* and nothing changes any more: no dispatch, no accumulator, log, wait-cost
\* or register change, no return value, no activation that returns.
C6_FaultAborts ==
  [][/\ error_msg # "" => status = "Faulted" /\ UNCHANGED vars
     /\ error_msg' # "" => status' = "Faulted"
    ]_vars

\* a runtime error was raised three activations deep
C6_Witness ==
  /\ error_msg = "missing first basic block"
  /\ status = "Faulted"
  /\ Len(stack) = 3

\* the Calls that started an activation, in the order of the run
StartedCalls == SelectSeq(trace, LAMBDA e : e.op = "Call" /\ e.ok)

\* the Calls that the activation with accumulator n executed and that
\* started an activation
CallsOf(n) == SelectSeq(trace, LAMBDA e : e.op = "Call" /\ e.ok /\ e.node = n)

\* the function named by the Call of an entry of the history
CalledBy(e) == Prog[e.fname].stmts[e.idx].fname

\* C7: there is one accumulator per started activation, named after its
\* function; the root is the one of the activation without parent; each
\* other one is in exactly one callee list, and the callee list of a node
\* names the functions its activation called, in call order (none if it
\* executed no Call); the accumulators of nested activations are chained by
\* last callees.
C7_TreeMirrorsCalls ==
  /\ main_cost = 0 <=> nodes = <<>>
  /\ nodes # <<>> =>
       /\ main_cost = 1
       /\ nodes[1].fname = "main"
       /\ Len(nodes) = 1 + Len(StartedCalls)
       /\ \A k \in 1..Len(StartedCalls) :
            nodes[k + 1].fname = CalledBy(StartedCalls[k])
       /\ \A n \in DOMAIN nodes :
            /\ Len(nodes[n].callees) = Len(CallsOf(n))
            /\ \A i \in DOMAIN nodes[n].callees :
                 /\ nodes[n].callees[i] \in DOMAIN nodes
                 /\ nodes[nodes[n].callees[i]].fname = CalledBy(CallsOf(n)[i])
                 /\ \A j \in DOMAIN nodes[n].callees :
                      i < j => nodes[n].callees[i] < nodes[n].callees[j]
       /\ \A m \in DOMAIN nodes :
            Cardinality({n \in DOMAIN nodes :
                           \E i \in DOMAIN nodes[n].callees :
                             nodes[n].callees[i] = m})
              = IF m = 1 THEN 0 ELSE 1
       /\ \A d \in DOMAIN stack :
            IF d = 1 THEN stack[d].cost = 1 /\ stack[d].parent = 0
            ELSE /\ stack[d].parent = stack[d - 1].cost
                 /\ nodes[stack[d].parent].callees # <<>>
                 /\ stack[d].cost =
                      nodes[stack[d].parent].callees[
                        Len(nodes[stack[d].parent].callees)]

\* main called f, which called g, and then g; g called nothing
C7_Witness ==
  /\ status = "Returned"
  /\ Len(nodes) = 4
  /\ nodes[1].callees = <<2, 4>>
  /\ nodes[2].callees = <<3>>
  /\ nodes[3].callees = <<>>
  /\ nodes[2].fname = "f" /\ nodes[4].fname = "g"

\* main calls f with 2 arguments and returns its result; f returns 5
Scenario == {ProgCall("f", 2, w, 5, 3) : w \in Waits}

\* C8: over a whole Call with n arguments, the caller's accumulator grows by
\* CALL + n * PER_ARG + the argument stall + the callee's final cost; in the
\* scenario the result is 5, the root has one callee, f, and the root's cost
\* is at least CALL + 2 * PER_ARG + f's cost.
C8_CallCost ==
  [][/\ CalleeReturns =>
          LET caller == stack[Len(stack) - 1]
              call == StmtAt(caller)
          IN get_cost(nodes', caller.cost) =
               precall[Len(precall)].cost + CALL + Len(call.args) * PER_ARG
               + call.wait + get_cost(nodes', Top.cost)
     /\ (status' = "Returned" /\ Prog \in Scenario) =>
          /\ res' = 5
          /\ Len(nodes'[main_cost'].callees) = 1
          /\ nodes'[nodes'[main_cost'].callees[1]].fname = "f"
          /\ get_cost(nodes', main_cost') >=
               CALL + 2 * PER_ARG
               + get_cost(nodes', nodes'[main_cost'].callees[1])
    ]_vars

\* the scenario has returned, with a stall cost in the Call
C8_Witness ==
  /\ status = "Returned"
  /\ Prog \in Scenario
  /\ res = 5
  /\ \E i \in DOMAIN trace : trace[i].op = "Call" /\ trace[i].stall > 0

RECURSIVE SumCounts(_, _)
\* the sum of the counts of the opcodes in S
SumCounts(counts, S) ==
  IF S = {} THEN 0
  ELSE LET o == CHOOSE x \in S : TRUE
       IN counts[o] + SumCounts(counts, S \ {o})

\* the instructions of a history that their own dispatch did not reject
Accepted(tr) == SelectSeq(tr, LAMBDA e : e.ok)

\* the step dispatches an instruction
Dispatches == Len(trace') = Len(trace) + 1

\* C9 as stated: the counts sum to the number of instructions dispatched
C9_CountsAllDispatched == SumCounts(inst_count, Opcodes) = Len(trace)

\* C9: a dispatch that is not rejected adds 1 to the count of its opcode and
\* its base cost (not its stall cost) to that opcode's cost cell, leaves the
\* other cells alone and adds its stall cost to the wait-cost total; an
\* instruction rejected by its own check (undefined target block, undefined
\* callee, wrong number of arguments, failing instruction) faults the run
\* and logs nothing; the counts sum to the number of instructions dispatched
\* and not rejected, which is all of them but at most the last one.
C9_LoggedOnce ==
  [][Dispatches =>
       LET e == trace'[Len(trace')]
       IN /\ e.ok =>
               /\ inst_count' = [inst_count EXCEPT ![e.op] = @ + 1]
               /\ cost_per_inst' = [cost_per_inst EXCEPT ![e.op] = @ + e.base]
               /\ total_wait_cost' = total_wait_cost + e.stall
          /\ ~e.ok =>
               /\ status' = "Faulted"
               /\ UNCHANGED <<inst_count, cost_per_inst, total_wait_cost>>
          /\ SumCounts(inst_count', Opcodes) = Len(Accepted(trace'))
          /\ Len(Accepted(trace')) >= Len(trace') - 1
    ]_vars

\* instructions with a stall cost were logged and then a branch faulted
C9_Witness ==
  /\ status = "Faulted"
  /\ Len(trace) >= 3
  /\ ~trace[Len(trace)].ok
  /\ trace[Len(trace)].op = "BrCond"
  /\ total_wait_cost > 0
  /\ SumCounts(inst_count, Opcodes) = Len(trace) - 1

Starts == status = "Ready" /\ status' # "Ready"

\* the step is the Return of the activation that exec_program started
MainReturns == status = "Running" /\ status' = "Returned"

\* C11: exec_program of a program without a function main faults with
\* "missing main function", creating no accumulator and dispatching nothing;
\* otherwise it starts main without parent, main's accumulator being the
\* root, and its result is the value of main's Return.
C11_ExecProgram ==
  [][/\ (Starts /\ "main" \notin DOMAIN Prog) =>
          /\ status' = "Faulted"
          /\ error_msg' = "missing main function"
          /\ nodes' = <<>> /\ main_cost' = 0
          /\ stack' = <<>> /\ trace' = <<>>
     /\ (Starts /\ "main" \in DOMAIN Prog) =>
          /\ Len(nodes') = 1
          /\ main_cost' = 1
          /\ nodes'[main_cost'].fname = "main"
          /\ Len(stack') = 1
          /\ stack'[1].function = "main"
          /\ stack'[1].parent = 0
          /\ stack'[1].cost = main_cost'
          /\ trace' = <<>>
     /\ MainReturns =>
          /\ Len(stack) = 1
          /\ Top.function = "main"
          /\ Top.cost = main_cost
          /\ StmtAt(Top).op = "Ret"
          /\ res' = (IF StmtAt(Top).val.k = "imm" THEN StmtAt(Top).val.v
                     ELSE regfile.reg[StmtAt(Top).val.r])
    ]_vars

\* exec_program faulted for want of a function main
C11_Witness ==
  /\ status = "Faulted"
  /\ error_msg = "missing main function"
  /\ "main" \notin DOMAIN Prog
  /\ nodes = <<>>

\* C12: the loop program, in which the unconditional branch into the loop
\* body is taken twice, and its form unrolled twice return the same value
\* with the same register values, and the loop program's root cost is the
\* unrolled one's plus 2 * BRUNCOND.
C12_LoopAsUnrolled ==
  (run = 2 /\ status = "Returned" /\ \E w \in Waits : Prog = ProgUnrolled(w)) =>
    /\ first_run[1].outcome.status = "Returned"
    /\ first_run[1].outcome.inst_count["BrUncond"] = 2
    /\ inst_count["BrUncond"] = 0
    /\ first_run[1].outcome.res = res
    /\ first_run[1].reg = regfile.reg
    /\ first_run[1].outcome.cost = get_cost_value + 2 * BRUNCOND

\* the unrolled program has returned after the loop program, with stalls
C12_Witness ==
  /\ run = 2
  /\ status = "Returned"
  /\ Prog = ProgUnrolled(WAIT_STACK)
  /\ res = 5

\* the innermost activation is about to dispatch the Return that is the only
\* instruction of its function
OnlyRet ==
  /\ CanDispatch("Ret")
  /\ Len(FnOf(Top).stmts) = 1

\* the instructions of a history dispatched by the activation of node n
EventsOf(tr, n) == SelectSeq(tr, LAMBDA e : e.node = n)

\* C13: the activation of a function whose only instruction is a Return ends
\* with cost RET + the stall cost of the return value, without callees, with
\* one Ret logged, and with that amount added to its parent's accumulator if
\* it has a parent.
C13_OnlyRetCost ==
  [][OnlyRet =>
       LET n == Top.cost
           amount == RET + StmtAt(Top).wait
       IN /\ nodes'[n].cost = amount
          /\ nodes'[n].callees = <<>>
          /\ Len(EventsOf(trace', n)) = 1
          /\ EventsOf(trace', n)[1].op = "Ret"
          /\ inst_count' = [inst_count EXCEPT !["Ret"] = @ + 1]
          /\ cost_per_inst' = [cost_per_inst EXCEPT !["Ret"] = @ + RET]
          /\ Top.parent # 0 =>
               nodes'[Top.parent].cost = nodes[Top.parent].cost + amount
          /\ \A m \in DOMAIN nodes :
               (m # n /\ m # Top.parent) => nodes'[m] = nodes[m]
    ]_vars

\* f, whose only instruction is a Return with a stall cost, has returned
\* into main
C13_Witness ==
  /\ status = "Running"
  /\ Len(stack) = 1
  /\ "f" \in DOMAIN Prog
  /\ Len(Prog["f"].stmts) = 1
  /\ trace # <<>>
  /\ trace[Len(trace)].op = "Ret"
  /\ trace[Len(trace)].node = 2
  /\ trace[Len(trace)].stall > 0
  /\ nodes[2].cost = RET + WAIT_STACK

\* the activation of accumulator n has returned
HasReturned(n) ==
  /\ n \in DOMAIN nodes
  /\ \A d \in DOMAIN stack : stack[d].cost # n

RECURSIVE SumCallees(_)
\* the costs of the accumulators in a callee list, summed
SumCallees(callees) ==
  IF callees = <<>> THEN 0
  ELSE get_cost(nodes, Head(callees)) + SumCallees(Tail(callees))

\* C14: the cost of an accumulator whose activation has returned is the sum
\* of base + stall of the instructions that activation executed plus the
\* final costs of its direct callees, hence at least the sum of its
\* children's costs.
C14_NodeCost ==
  \A n \in DOMAIN nodes :
    HasReturned(n) =>
      /\ \A i \in DOMAIN nodes[n].callees : HasReturned(nodes[n].callees[i])
      /\ nodes[n].cost =
           SumCosts(EventsOf(trace, n)) + SumCallees(nodes[n].callees)
      /\ nodes[n].cost >= SumCallees(nodes[n].callees)

\* f has returned with a callee g of non-zero cost, and so has main
C14_Witness ==
  /\ status = "Returned"
  /\ Len(nodes) = 4
  /\ nodes[2].callees = <<3>>
  /\ nodes[3].cost > 0
  /\ nodes[2].cost > nodes[3].cost
  /\ nodes[1].cost > nodes[2].cost + nodes[4].cost

\* the activation of accumulator n executed its Ret
Retired(tr, n) ==
  \E i \in DOMAIN tr : tr[i].node = n /\ tr[i].op = "Ret" /\ tr[i].ok

\* C15: once an activation has returned its accumulator is never mutated
\* again (cost and callee list), no accumulator is ever removed, and every
\* activation, of a function that ran before too, starts on a fresh
\* accumulator of cost 0 without callees.
C15_ReturnedFrozen ==
  [][/\ \A n \in DOMAIN nodes :
          /\ n \in DOMAIN nodes'
          /\ nodes'[n].fname = nodes[n].fname
          /\ Retired(trace, n) => nodes'[n] = nodes[n]
     /\ Len(stack') > Len(stack) =>
          LET new == stack'[Len(stack')]
          IN /\ new.cost \notin DOMAIN nodes
             /\ new.cost \in DOMAIN nodes'
             /\ nodes'[new.cost] = NewCostStack(new.function)]_vars

\* g ran twice, on two accumulators, and the first kept its final cost
\* while the second ran
C15_Witness ==
  /\ status = "Returned"
  /\ Len(nodes) = 4
  /\ nodes[3].fname = "g" /\ nodes[4].fname = "g"
  /\ Retired(trace, 3) /\ Retired(trace, 4)
  /\ nodes[3].cost = SumCosts(EventsOf(trace, 3))
  /\ nodes[3].cost > 0 /\ nodes[4].cost > 0

\* the innermost activation is at a conditional branch whose chosen label
\* names a block of its function
BrCondResolves ==
  /\ status = "Running"
  /\ stack # <<>>
  /\ Top.curr # 0
  /\ StmtAt(Top).op = "BrCond"
  /\ LET stmt == StmtAt(Top)
     IN (IF Eval(stmt.val, regfile) # 0 THEN stmt.bb ELSE stmt.bb2)
          \in DOMAIN FnOf(Top).bbs

\* C16: a conditional branch whose target resolves adds to the current
\* accumulator BRCOND_TRUE + stall when the condition is true and
\* BRCOND_FALSE + stall when it is false, logs that base cost under BrCond,
\* and continues at the first instruction of the block chosen by the same
\* outcome.
C16_BrCond ==
  [][(BrCondResolves /\ trace' # trace) =>
       LET stmt == StmtAt(Top)
           taken == Eval(stmt.val, regfile) # 0
           base == IF taken THEN BRCOND_TRUE ELSE BRCOND_FALSE
           label == IF taken THEN stmt.bb ELSE stmt.bb2
       IN /\ nodes' = [nodes EXCEPT ![Top.cost].cost = @ + base + stmt.wait]
          /\ cost_per_inst' = [cost_per_inst EXCEPT !["BrCond"] = @ + base]
          /\ inst_count' = [inst_count EXCEPT !["BrCond"] = @ + 1]
          /\ total_wait_cost' = total_wait_cost + stmt.wait
          /\ status' = "Running"
          /\ stack' = [stack EXCEPT ![Len(stack)].curr = FnOf(Top).bbs[label]]
          /\ regfile' = regfile]_vars

\* both outcomes were taken in one run, one of them with a stall
C16_Witness ==
  /\ \E i \in DOMAIN trace :
       /\ trace[i].op = "BrCond" /\ trace[i].ok
       /\ trace[i].base = BRCOND_TRUE /\ trace[i].stall > 0
  /\ \E i \in DOMAIN trace :
       /\ trace[i].op = "BrCond" /\ trace[i].ok
       /\ trace[i].base = BRCOND_FALSE
  /\ cost_per_inst["BrCond"] = BRCOND_TRUE + BRCOND_FALSE

\* C17: every cell of the Instruction Log (count and cost total of every
\* opcode) and the wait-cost total never decrease over a step of a run.
C17_LogMonotone ==
  [][/\ \A o \in Opcodes :
          /\ inst_count'[o] >= inst_count[o]
          /\ cost_per_inst'[o] >= cost_per_inst[o]
     /\ total_wait_cost' >= total_wait_cost]_vars

\* an opcode was logged twice with different costs, and an instruction
\* with a stall was followed by one without
C17_Witness ==
  /\ inst_count["BrCond"] = 2
  /\ cost_per_inst["BrCond"] = BRCOND_FALSE + BRCOND_TRUE
  /\ \E i, j \in DOMAIN trace :
       /\ i < j
       /\ trace[i].ok /\ trace[j].ok
       /\ trace[i].stall > 0 /\ trace[j].stall = 0
  /\ total_wait_cost > 0

\* the rows of the report that show the cells of opcode o
RowsOf(o) ==
  {i \in DOMAIN inst_log_to_string :
     /\ inst_log_to_string[i].opcode = o
     /\ inst_log_to_string[i].count = inst_count[o]
     /\ inst_log_to_string[i].cost = Fixed4(cost_per_inst[o])}

\* C18: the Instruction Log report has a row for every opcode of the
\* enumeration, Assert included, showing its count and its summed base cost,
\* the BrCond row appearing twice; stated for the report of a run that
\* returned and logged an Assert.
C18_RowPerOpcode ==
  (status = "Returned" /\ inst_count["Assert"] > 0) =>
    /\ \A o \in Opcodes : RowsOf(o) # {}
    /\ Cardinality(RowsOf("BrCond")) = 2
    /\ Len(inst_log_to_string) = Cardinality(Opcodes) + 1

RECURSIVE SumStack(_)
\* the current costs of the accumulators of the activations in frames, summed
SumStack(frames) ==
  IF frames = <<>> THEN 0
  ELSE get_cost(nodes, Head(frames).cost) + SumStack(Tail(frames))

\* C19: while activations are on the call stack, the cost cells of the
\* Instruction Log summed plus the wait-cost total equal the sum of the
\* current costs of the accumulators of those activations, a returned
\* activation counting through the caller it was folded into; once main has
\* returned the same total is the cost of the root.
C19_LogEqualsStack ==
  /\ stack # <<>> =>
       SumCounts(cost_per_inst, Opcodes) + total_wait_cost = SumStack(stack)
  /\ status = "Returned" =>
       SumCounts(cost_per_inst, Opcodes) + total_wait_cost = get_cost_value

\* two activations are on the stack after another one returned into the
\* outer one, and an instruction had a stall
C19_Witness ==
  /\ status = "Running"
  /\ Len(stack) = 2
  /\ Len(nodes) = 4
  /\ nodes[stack[1].cost].cost > nodes[2].cost
  /\ nodes[2].cost > 0
  /\ total_wait_cost > 0

\* C20: set_program is write-once: the first call installs its program,
\* every later call leaves the installed program and the rest of the State
\* unchanged, and exec_program and every dispatch run the installed program.
C20_WriteOnce ==
  [][/\ program # <<>> => program' = program
     /\ set_calls' # set_calls =>
          /\ set_calls' = set_calls + 1
          /\ program' # <<>>
          /\ program'[1] \in Programs
          /\ UNCHANGED <<status, stack, nodes, main_cost, regfile,
                         cost_per_inst, inst_count, total_wait_cost, res, trace>>
     /\ (status = "Ready" /\ status' # "Ready") =>
          /\ program # <<>>
          /\ IF "main" \in DOMAIN program[1]
             THEN /\ Len(stack') = 1
                  /\ stack'[1].function = "main"
                  /\ stack'[1].curr = program[1]["main"].first
             ELSE status' = "Faulted" /\ error_msg' = "missing main function"
     /\ trace' # trace =>
          LET e == trace'[Len(trace')]
              stmt == program[1][e.fname].stmts[e.idx]
          IN e.op = stmt.op /\ e.line = stmt.line
    ]_vars

\* set_program was called twice before the run, which is under way
C20_Witness ==
  /\ set_calls = 2
  /\ status = "Running"
  /\ program # <<>>
  /\ trace # <<>>
  /\ Len(stack) = 2

====
